---- MODULE Spec2Model ----
(***************************************************************************)
(* Model of the firmware tools of this repository:                         *)
(*   01-breaker.py  partition table decoder and partition extractor        *)
(*   03-bitmap.py   resource table scanner, boundary inference, pixel      *)
(*                  format reconstruction and manifest builder             *)
(* Byte buffers are sequences of integers 0..255.  Python index i is       *)
(* sequence index i+1.  Each tool is one sequential process; `tool` says   *)
(* which of the two scripts the behaviour is a run of.                     *)
(***************************************************************************)
EXTENDS Integers, Sequences, FiniteSets, TLC

VARIABLES tool, pc, data, out, written, err, parts, hidx,
          start_pos, entries, data_end_limit, idx, manifest

vars == <<tool, pc, data, out, written, err, parts, hidx,
          start_pos, entries, data_end_limit, idx, manifest>>

breakerVars == <<parts, hidx>>
bitmapVars == <<start_pos, entries, data_end_limit, idx, manifest>>

(***************************************************************************)
(* Bounds of the model.                                                    *)
(***************************************************************************)
\* longest firmware image given to 01-breaker.py
MaxImageLen == 512

\* longest partition buffer of the scanner family given to 03-bitmap.py
MaxScanLen == 232

\* most metadata records laid into a generated partition buffer
MaxRecords == 3

(***************************************************************************)
(* Python primitives                                                       *)
(***************************************************************************)
Min(a, b) == IF a < b THEN a ELSE b
Max(a, b) == IF a > b THEN a ELSE b

\* s[a:b] for 0 <= a: clamped at the end of s, empty when a is past it
Slice(s, a, b) == [k \in 1..Max(Min(b, Len(s)) - a, 0) |-> s[a + k]]

\* b'\x00' * n
Zeros(n) == [k \in 1..n |-> 0]

\* the value Python's None, distinct from every byte string
None == <<-1>>

\* truthiness of a bytes-or-None value:  `x and ...`
Truthy(x) == x # None /\ Len(x) > 0

\* struct.unpack('<I', c)[0] of the k-th (0-based) 4-byte word of c
U32LE(c, k) ==
    c[4 * k + 1] + 256 * c[4 * k + 2] + 65536 * c[4 * k + 3] + 16777216 * c[4 * k + 4]

\* struct.pack('<I', v)
PackU32(v) ==
    <<v % 256, (v \div 256) % 256, (v \div 65536) % 256, (v \div 16777216) % 256>>

\* one line of console output
Line(tag, name, a, b, raw) == [tag |-> tag, name |-> name, a |-> a, b |-> b, raw |-> raw]

(***************************************************************************)
(* 01-breaker.py                                                           *)
(***************************************************************************)
standard_entries ==
    << [pos |-> 112, name |-> "part_0_flag"],        \* 0x70
       [pos |-> 120, name |-> "part_1_firmware_a"],  \* 0x78
       [pos |-> 128, name |-> "part_2_firmware_b"],  \* 0x80
       [pos |-> 204, name |-> "part_3_resource"],    \* 0xCC
       [pos |-> 332, name |-> "part_5_main_fs"] >>   \* 0x14C

\* 0xF4
p4_pos == 244

\* parts[name] = value, on a dict kept as a sequence in insertion order
DictSet(d, name, value) ==
    IF \E k \in 1..Len(d) : d[k].name = name
    THEN [k \in 1..Len(d) |-> IF d[k].name = name THEN value ELSE d[k]]
    ELSE Append(d, value)

HasKey(d, name) == \E k \in 1..Len(d) : d[k].name = name

\* parts[name]
DictGet(d, name) == d[CHOOSE k \in 1..Len(d) : d[k].name = name]

\* a reader that pads a short header with zeros instead of failing
HeaderChunk_ZeroPadded(buf, pos) ==
    Slice(buf, pos, pos + 16) \o Zeros(16 - Len(Slice(buf, pos, pos + 16)))

\* chunk = data[pos : pos + 16]
HeaderChunk(buf, pos) == Slice(buf, pos, pos + 16)

\* struct.unpack('<IIII', chunk) raises struct.error unless len(chunk) == 16
UnpackFits(chunk) == Len(chunk) = 16

\* Type A: offset, size, next_offset, _ = unpack(chunk)
TypeAPartition(name, chunk) ==
    [name |-> name, offset |-> U32LE(chunk, 0), size |-> U32LE(chunk, 1), data |-> None]

\* the Type B header read like a Type A header
TypeBPartition_AsTypeA(name, chunk) ==
    [name |-> name, offset |-> U32LE(chunk, 0), size |-> U32LE(chunk, 1), data |-> None]

\* Type B: val1, val2, val3, _ = unpack(chunk); offset = val2, size = val3
TypeBPartition(name, chunk) ==
    [name |-> name, offset |-> U32LE(chunk, 1), size |-> U32LE(chunk, 2), data |-> None]

\* one iteration of the loop over standard_entries in analyze_hybrid_headers
AnalyzeStandardHeader ==
    /\ tool = "breaker" /\ pc = "headers"
    /\ LET e == standard_entries[hidx]
           chunk == HeaderChunk(data, e.pos)
       IN IF ~UnpackFits(chunk)
          THEN \* struct.error leaves analyze_hybrid_headers and main: the
               \* local dict is gone, nothing is returned
               /\ pc' = "crashed"
               /\ err' = "struct.error in analyze_hybrid_headers"
               /\ parts' = <<>>
               /\ UNCHANGED <<out, hidx>>
          ELSE LET p == TypeAPartition(e.name, chunk)
               IN /\ parts' = DictSet(parts, e.name, p)
                  /\ out' = Append(out, Line("ROW", e.name, p.offset, p.size,
                                             PackU32(U32LE(chunk, 2))))
                  /\ hidx' = hidx + 1
                  /\ pc' = IF hidx = Len(standard_entries) THEN "p4" ELSE "headers"
                  /\ err' = err
    /\ UNCHANGED <<tool, data, written>>
    /\ UNCHANGED bitmapVars

\* the Audio DSP header at 0xF4 and the return of analyze_hybrid_headers
AnalyzeSpecialHeader ==
    /\ tool = "breaker" /\ pc = "p4"
    /\ LET chunk == HeaderChunk(data, p4_pos)
       IN IF ~UnpackFits(chunk)
          THEN /\ pc' = "crashed"
               /\ err' = "struct.error in analyze_hybrid_headers"
               /\ parts' = <<>>
               /\ UNCHANGED <<out, hidx>>
          ELSE LET p == TypeBPartition("part_4_audio_dsp", chunk)
               IN /\ parts' = DictSet(parts, "part_4_audio_dsp", p)
                  /\ out' = Append(out, Line("ROW", "part_4_audio_dsp", p.offset, p.size,
                                             PackU32(U32LE(chunk, 0))))
                  /\ pc' = "verify"
                  /\ hidx' = 1
                  /\ err' = err
    /\ UNCHANGED <<tool, data, written>>
    /\ UNCHANGED bitmapVars

\* the continuity check with the gap taken the wrong way round
AdjacencyLine_GapReversed(d, pname, qname, label) ==
    LET p_end == DictGet(d, pname).offset + DictGet(d, pname).size
        q_start == DictGet(d, qname).offset
    IN IF p_end = q_start
       THEN Line("PASS", label, p_end, 0, <<>>)
       ELSE Line("WARN", label, p_end - q_start, 0, <<>>)

\* one continuity check of extract_and_verify: PASS with the common
\* boundary, or WARN with the gap
AdjacencyLine(d, pname, qname, label) ==
    LET p_end == DictGet(d, pname).offset + DictGet(d, pname).size
        q_start == DictGet(d, qname).offset
    IN IF p_end = q_start
       THEN Line("PASS", label, p_end, 0, <<>>)
       ELSE Line("WARN", label, q_start - p_end, 0, <<>>)

\* the head of extract_and_verify: both continuity checks
VerifyAdjacency ==
    /\ tool = "breaker" /\ pc = "verify"
    /\ out' = out \o << AdjacencyLine(parts, "part_3_resource", "part_4_audio_dsp", "3-4"),
                        AdjacencyLine(parts, "part_4_audio_dsp", "part_5_main_fs", "4-5") >>
    /\ pc' = "extract"
    /\ hidx' = 1
    /\ UNCHANGED <<tool, data, written, err, parts>>
    /\ UNCHANGED bitmapVars

\* the bounds check off by one
OutOfBounds_OffByOne(buf, info) == info.offset + info.size >= Len(buf)

\* if off + sz > len(file_data): ... continue
OutOfBounds(buf, info) == info.offset + info.size > Len(buf)

\* one iteration of the extraction loop over parts.items()
ExtractPartition ==
    /\ tool = "breaker" /\ pc = "extract" /\ hidx <= Len(parts)
    /\ LET info == parts[hidx]
       IN IF OutOfBounds(data, info)
          THEN /\ out' = Append(out, Line("ERR", info.name, 0, 0, <<>>))
               /\ UNCHANGED <<parts, written>>
          ELSE LET bytes == Slice(data, info.offset, info.offset + info.size)
               IN /\ parts' = [parts EXCEPT ![hidx].data = bytes]
                  /\ written' = Append(written, [name |-> info.name, bytes |-> bytes])
                  /\ out' = out
    /\ hidx' = hidx + 1
    /\ UNCHANGED <<tool, pc, data, err>>
    /\ UNCHANGED bitmapVars

\* the end of extract_and_verify
ExtractDone ==
    /\ tool = "breaker" /\ pc = "extract" /\ hidx > Len(parts)
    /\ out' = Append(out, Line("EXTRACTED", "", Len(parts), 0, <<>>))
    /\ pc' = "post3"
    /\ UNCHANGED <<tool, data, written, err, parts, hidx>>
    /\ UNCHANGED bitmapVars

\* indices = struct.unpack(f'>{count}H', part_3_data); first i with indices[i] != i, or -1
BrokenAt(d) ==
    LET count == Len(d) \div 2
        ind(i) == 256 * d[2 * i + 1] + d[2 * i + 2]
    IN IF \E i \in 0..(count - 1) : ind(i) # i
       THEN CHOOSE i \in 0..(count - 1) : ind(i) # i /\ \A j \in 0..(i - 1) : ind(j) = j
       ELSE -1

\* main: analyze_resource_table when part_3_resource has data
MainAnalyzeResourceTable ==
    /\ tool = "breaker" /\ pc = "post3"
    /\ LET d == IF HasKey(parts, "part_3_resource")
                THEN DictGet(parts, "part_3_resource").data ELSE None
       IN IF ~Truthy(d)
          THEN /\ pc' = "post1" /\ UNCHANGED <<out, err>>
          ELSE IF Len(d) % 2 # 0
          THEN \* the warning is printed, then unpack of count 16-bit words
               \* from an odd number of bytes raises struct.error
               /\ out' = out \o << Line("WARN", "part3-odd", 0, 0, <<>>),
                                   Line("ENTRIES", "", Len(d) \div 2, 0, <<>>) >>
               /\ pc' = "crashed"
               /\ err' = "struct.error in analyze_resource_table"
          ELSE /\ out' = out \o << Line("ENTRIES", "", Len(d) \div 2, 0, <<>>),
                                   Line("STRUCTURE", "", BrokenAt(d), 0, <<>>) >>
               /\ pc' = "post1"
               /\ err' = err
    /\ UNCHANGED <<tool, data, written, parts, hidx>>
    /\ UNCHANGED bitmapVars

\* verify_firmware_execution: the file offset of the entry point when
\* base_addr <= reset < base_addr + fw_size (base_addr = 0x80400000), else -1.
\* The reset vector is taken as its two 16-bit halves; 0x8040 is the high
\* half of base_addr, whose low half is 0.
EntryFileOffset(d) ==
    LET lo == d[5] + 256 * d[6]
        hi == d[7] + 256 * d[8]
        rel == (hi - 32832) * 65536 + lo
    IN IF hi >= 32832 /\ hi - 32832 < 16384 /\ rel < Len(d)
       THEN rel - (rel % 2)
       ELSE -1

\* main: verify_firmware_execution when part_1_firmware_a has data
MainVerifyFirmwareExecution ==
    /\ tool = "breaker" /\ pc = "post1"
    /\ LET d == IF HasKey(parts, "part_1_firmware_a")
                THEN DictGet(parts, "part_1_firmware_a").data ELSE None
       IN IF ~Truthy(d)
          THEN /\ pc' = "done" /\ UNCHANGED <<out, err>>
          ELSE IF Len(Slice(d, 0, 8)) # 8
          THEN \* struct.unpack('<II', part_1_data[0:8]) raises struct.error
               /\ pc' = "crashed"
               /\ err' = "struct.error in verify_firmware_execution"
               /\ out' = out
          ELSE LET fo == EntryFileOffset(d)
                   head == << Line("MSP", "", 0, 0, Slice(d, 0, 4)),
                              Line("PC", "", 0, 0, Slice(d, 4, 8)) >>
               IN /\ out' = out \o head \o
                        (IF fo = -1
                         THEN << Line("WARN", "entry-outside", 0, 0, Slice(d, 4, 8)) >>
                         ELSE << Line("ENTRY", "", fo, 0, <<>>) >> \o
                              (IF fo < Len(d) - 4
                               THEN << Line("OPCODE", "", 0, 0, Slice(d, fo, fo + 4)) >>
                               ELSE <<>>))
                  /\ pc' = "done"
                  /\ err' = err
    /\ UNCHANGED <<tool, data, written, parts, hidx>>
    /\ UNCHANGED bitmapVars

(***************************************************************************)
(* Firmware images given to 01-breaker.py: a length, the (offset, size)    *)
(* words of the six headers, and a filler for every other byte.            *)
(***************************************************************************)
ImageFiller(i) == (i * 7 + 3) % 64

\* the image of length len whose 32-bit little-endian word at byte position
\* p is words[p], for p in DOMAIN words
MkImage(len, words) ==
    [k \in 1..len |->
        LET i == k - 1
            p == i - (i % 4)
        IN IF p \in DOMAIN words THEN PackU32(words[p])[(i % 4) + 1] ELSE ImageFiller(i)]

\* lengths: one byte short of the first header, first header only, through
\* 0xCC but not 0xF4, one byte short of the last header, all six headers
ImageLens == {127, 128, 256, 347, 348, MaxImageLen}

\* (offset, size) of part 0, 1, 2
Layouts012 ==
    { << <<0, 16>>, <<352, 16>>, <<368, 16>> >>,
      << <<1073741808, 32>>, <<352, 4>>, <<511, 2>> >> }

Layouts3 == { <<256, 80>>, <<256, 77>>, <<496, 32>> }
Layouts4 == { <<336, 48>>, <<340, 44>> }
Layouts5 == { <<384, 128>>, <<388, 124>>, <<384, 640>> }

HeaderWords(l012, l3, l4, l5) ==
    (112 :> l012[1][1]) @@ (116 :> l012[1][2]) @@
    (120 :> l012[2][1]) @@ (124 :> l012[2][2]) @@
    (128 :> l012[3][1]) @@ (132 :> l012[3][2]) @@
    (204 :> l3[1]) @@ (208 :> l3[2]) @@
    (244 :> 1) @@ (248 :> l4[1]) @@ (252 :> l4[2]) @@
    (332 :> l5[1]) @@ (336 :> l5[2])

BreakerImages ==
    { MkImage(len, HeaderWords(l012, l3, l4, l5)) :
        len \in ImageLens, l012 \in Layouts012, l3 \in Layouts3,
        l4 \in Layouts4, l5 \in Layouts5 }

InitBreaker ==
    /\ tool = "breaker"
    /\ pc = "headers"
    /\ data \in BreakerImages
    /\ out = <<>>
    /\ written = <<>>
    /\ err = ""
    /\ parts = <<>>
    /\ hidx = 1
    /\ start_pos = 0
    /\ entries = <<>>
    /\ data_end_limit = 0
    /\ idx = 0
    /\ manifest = <<>>

NextBreaker ==
    \/ AnalyzeStandardHeader
    \/ AnalyzeSpecialHeader
    \/ VerifyAdjacency
    \/ ExtractPartition
    \/ ExtractDone
    \/ MainAnalyzeResourceTable
    \/ MainVerifyFirmwareExecution

(***************************************************************************)
(* 03-bitmap.py                                                            *)
(***************************************************************************)
\* b'\x77\x00\x00\x3A\x75'
MAGIC_SIG == <<119, 0, 0, 58, 117>>

\* the signature lies at Python index p of buf
MatchAt(buf, p) ==
    /\ p >= 0
    /\ p + Len(MAGIC_SIG) <= Len(buf)
    /\ \A k \in 1..Len(MAGIC_SIG) : buf[p + k] = MAGIC_SIG[k]

FindFrom(buf, start) ==
    IF \E p \in start..(Len(buf) - Len(MAGIC_SIG)) : MatchAt(buf, p)
    THEN CHOOSE p \in start..(Len(buf) - Len(MAGIC_SIG)) :
            MatchAt(buf, p) /\ \A q \in start..(p - 1) : ~MatchAt(buf, q)
    ELSE -1

\* data.find(MAGIC_SIG, start)
Find(buf, start) == FindFrom(buf, start)

\* raw_bytes.find(b'\x00'), 0-based, or -1
NullPos(raw) ==
    IF \E k \in 1..Len(raw) : raw[k] = 0
    THEN (CHOOSE k \in 1..Len(raw) : raw[k] = 0 /\ \A j \in 1..(k - 1) : raw[j] # 0) - 1
    ELSE -1

\* bytes.decode('ascii', errors='ignore'): the bytes below 128, in order
RECURSIVE AsciiIgnore(_)
AsciiIgnore(raw) ==
    IF raw = <<>> THEN <<>>
    ELSE (IF raw[1] < 128 THEN <<raw[1]>> ELSE <<>>) \o AsciiIgnore(Tail(raw))

decode_raw_name(raw_bytes) ==
    LET null_pos == NullPos(raw_bytes)
    IN AsciiIgnore(IF null_pos # -1 THEN Slice(raw_bytes, 0, null_pos) ELSE raw_bytes)

\* struct.unpack('<I', data[a : a + 4]) raises struct.error unless 4 bytes are there
FieldFits(buf, a) == Len(Slice(buf, a, a + 4)) = 4
Field(buf, a) == U32LE(Slice(buf, a, a + 4), 0)

\* the three numeric fields of the record at pos can be unpacked
RecordParses(buf, pos) ==
    FieldFits(buf, pos + 20) /\ FieldFits(buf, pos + 24) /\ FieldFits(buf, pos + 28)

\* name_bytes = data[pos + 32 : pos + 96]
NameBytes(buf, pos) == Slice(buf, pos + 32, pos + 96)

\* if offset < file_size and len(original_name) > 0
EntryValid(offset, original_name, file_size) ==
    offset < file_size /\ Len(original_name) > 0

\* the try block of the scan loop: the entries after the match at pos
ParseMatch(es, buf, pos) ==
    IF ~RecordParses(buf, pos)
    THEN es      \* except: pass
    ELSE LET offset == Field(buf, pos + 20)
             original_name == decode_raw_name(NameBytes(buf, pos))
         IN IF EntryValid(offset, original_name, Len(buf))
            THEN Append(es, [meta_pos |-> pos,
                             offset |-> offset,
                             width |-> Field(buf, pos + 24),
                             height |-> Field(buf, pos + 28),
                             original_name |-> original_name])
            ELSE es

\* a search resumed past the whole 96-byte record
NextStart_PastRecord(pos) == pos + 96

\* start_pos = pos + 1
NextStart(pos) == pos + 1

\* one iteration of the scan loop with a match
ScanMatch ==
    /\ tool = "bitmap" /\ pc = "scan"
    /\ LET pos == Find(data, start_pos)
       IN /\ pos # -1
          /\ entries' = ParseMatch(entries, data, pos)
          /\ start_pos' = NextStart(pos)
    /\ UNCHANGED <<tool, pc, data, out, written, err, data_end_limit, idx, manifest>>
    /\ UNCHANGED breakerVars

\* list.sort(key=offset): stable
\* an insertion that puts an entry before those of equal offset
RECURSIVE InsertByOffset_Unstable(_, _)
InsertByOffset_Unstable(sorted, e) ==
    IF sorted = <<>> THEN <<e>>
    ELSE IF sorted[Len(sorted)].offset < e.offset THEN Append(sorted, e)
    ELSE Append(InsertByOffset_Unstable(SubSeq(sorted, 1, Len(sorted) - 1), e),
                sorted[Len(sorted)])

RECURSIVE InsertByOffset(_, _)
InsertByOffset(sorted, e) ==
    IF sorted = <<>> THEN <<e>>
    ELSE IF sorted[Len(sorted)].offset <= e.offset THEN Append(sorted, e)
    ELSE Append(InsertByOffset(SubSeq(sorted, 1, Len(sorted) - 1), e), sorted[Len(sorted)])

\* the entries left in discovery order
SortByOffset_Unsorted(es) == es

RECURSIVE SortByOffset(_)
SortByOffset(es) ==
    IF es = <<>> THEN <<>>
    ELSE InsertByOffset(SortByOffset(SubSeq(es, 1, Len(es) - 1)), es[Len(es)])

\* min((e['meta_pos'] for e in entries), default=file_size)
DataEndLimit(es, file_size) ==
    IF es = <<>> THEN file_size
    ELSE CHOOSE m \in {es[k].meta_pos : k \in 1..Len(es)} :
            \A k \in 1..Len(es) : m <= es[k].meta_pos

\* the scan loop's break, the sort and the data end limit
ScanEnd ==
    /\ tool = "bitmap" /\ pc = "scan"
    /\ Find(data, start_pos) = -1
    /\ entries' = SortByOffset(entries)
    /\ data_end_limit' = DataEndLimit(entries, Len(data))
    /\ out' = Append(out, Line("PROCESSING", "", Len(entries), 0, <<>>))
    /\ idx' = 0
    /\ pc' = "process"
    /\ UNCHANGED <<tool, data, written, err, start_pos, manifest>>
    /\ UNCHANGED breakerVars

\* raw_size of entry i (0-based) of the sorted entries
RawSize(es, i, limit, file_size) ==
    IF i < Len(es) - 1
    THEN es[i + 2].offset - es[i + 1].offset
    ELSE LET r == limit - es[i + 1].offset
         IN IF r < 0 THEN file_size - es[i + 1].offset ELSE r

\* if raw_size <= 0: continue
Dropped(raw_size) == raw_size <= 0

\* the swap keeping the trailing byte of an odd buffer
swap_bytes_16bit_KeepOdd(d) ==
    [k \in 1..Len(d) |->
        IF k = Len(d) /\ Len(d) % 2 = 1 THEN d[k]
        ELSE IF k % 2 = 1 THEN d[k + 1] ELSE d[k - 1]]

swap_bytes_16bit(d) ==
    LET n == Len(d) - (Len(d) % 2)
    IN [k \in 1..n |-> IF k % 2 = 1 THEN d[k + 1] ELSE d[k - 1]]

\* (src_stride, dst_stride, padding)
get_stride_info(width) ==
    LET src_stride == width * 2
        dst_stride == ((src_stride + 3) \div 4) * 4
    IN <<src_stride, dst_stride, dst_stride - src_stride>>

restride_to_bmp(raw_data, width, height) ==
    LET src_stride == get_stride_info(width)[1]
        dst_stride == get_stride_info(width)[2]
        padding == get_stride_info(width)[3]
        expected_len == src_stride * height
        padded == IF Len(raw_data) < expected_len
                  THEN raw_data \o Zeros(expected_len - Len(raw_data))
                  ELSE raw_data
    IN IF padding = 0 /\ Len(raw_data) = expected_len
       THEN raw_data
       ELSE [k \in 1..(dst_stride * height) |->
                LET y == (k - 1) \div dst_stride
                    x == (k - 1) % dst_stride
                IN IF x < src_stride THEN padded[y * src_stride + x + 1] ELSE 0]

\* struct.pack('<H', v)
PackU16(v) == <<v % 256, (v \div 256) % 256>>

\* struct.pack('<i', v): two's complement of a negative v is the
\* complement of -v - 1
PackI32(v) ==
    IF v >= 0 THEN PackU32(v)
    ELSE [k \in 1..4 |-> 255 - PackU32(-v - 1)[k]]

\* a header of 54 bytes: the file header and the info header, no masks
create_bmp_header_NoMasks(width, height) ==
    LET image_size == ((width * 2 + 3) \div 4) * 4 * height
    IN <<66, 77>> \o PackU32(54 + image_size) \o <<0, 0, 0, 0>> \o PackU32(54)
       \o PackU32(40) \o PackI32(width) \o PackI32(-height)
       \o PackU16(1) \o PackU16(16) \o PackU32(3) \o PackU32(image_size)
       \o PackI32(2835) \o PackI32(2835) \o PackU32(0) \o PackU32(0)

\* headers_size = 14 + 40 + 12
headers_size == 14 + 40 + 12

create_bmp_header(width, height) ==
    LET dst_stride == get_stride_info(width)[2]
        image_size == dst_stride * height
        file_size == headers_size + image_size
    IN <<66, 77>> \o PackU32(file_size) \o <<0, 0, 0, 0>> \o PackU32(headers_size)
       \o PackU32(40) \o PackI32(width) \o PackI32(-height)
       \o PackU16(1) \o PackU16(16) \o PackU32(3) \o PackU32(image_size)
       \o PackI32(2835) \o PackI32(2835) \o PackU32(0) \o PackU32(0)
       \o PackU32(63488) \o PackU32(2016) \o PackU32(31)

\* str.isalnum() of an ASCII character: 0-9, A-Z, a-z
IsAlnum(c) == (c >= 48 /\ c <= 57) \/ (c >= 65 /\ c <= 90) \/ (c >= 97 /\ c <= 122)

\* the characters of "._-(), "
SafePunct == {46, 95, 45, 40, 41, 44, 32}

\* str.strip() of a string whose only whitespace is ' '
RECURSIVE LStrip(_)
LStrip(s) == IF s # <<>> /\ s[1] = 32 THEN LStrip(Tail(s)) ELSE s
RECURSIVE RStrip(_)
RStrip(s) == IF s # <<>> /\ s[Len(s)] = 32 THEN RStrip(SubSeq(s, 1, Len(s) - 1)) ELSE s
Strip(s) == RStrip(LStrip(s))

\* the sanitizer without the final strip()
sanitize_filename_NoStrip(original_name) ==
    LET safe == [k \in 1..Len(original_name) |->
                    IF original_name[k] \in {47, 92} THEN 95 ELSE original_name[k]]
    IN [k \in 1..Len(safe) |->
            IF IsAlnum(safe[k]) \/ safe[k] \in SafePunct THEN safe[k] ELSE 95]

sanitize_filename(original_name) ==
    LET safe == [k \in 1..Len(original_name) |->
                    IF original_name[k] \in {47, 92} THEN 95 ELSE original_name[k]]
    IN Strip([k \in 1..Len(safe) |->
                IF IsAlnum(safe[k]) \/ safe[k] \in SafePunct THEN safe[k] ELSE 95])

Lower(s) == [k \in 1..Len(s) |-> IF s[k] >= 65 /\ s[k] <= 90 THEN s[k] + 32 ELSE s[k]]

\* ".bmp"
DotBmp == <<46, 98, 109, 112>>

\* save_name_base.lower().endswith('.bmp')
EndsWithBmp(s) == Len(s) >= 4 /\ SubSeq(Lower(s), Len(s) - 3, Len(s)) = DotBmp

\* the tolerance taken inclusive
IsImage_Inclusive(width, height, raw_size) ==
    /\ width > 0 /\ height > 0
    /\ LET diff == raw_size - width * height * 2
       IN (IF diff < 0 THEN -diff ELSE diff) <= 4096

\* the classification of the image pipeline
IsImage(width, height, raw_size) ==
    /\ width > 0 /\ height > 0
    /\ LET expected_size == width * height * 2
           diff == raw_size - expected_size
       IN (IF diff < 0 THEN -diff ELSE diff) < 4096

\* final_data of an entry
FinalData(raw_data, width, height, raw_size) ==
    IF IsImage(width, height, raw_size)
    THEN create_bmp_header(width, height)
         \o restride_to_bmp(swap_bytes_16bit(raw_data), width, height)
    ELSE raw_data

\* save_name_base as written
SavedName(original_name, is_image) ==
    LET base == sanitize_filename(original_name)
    IN IF is_image /\ ~EndsWithBmp(base) THEN base \o DotBmp ELSE base

\* the manifest record of entry i
Meta(i, entry, raw_size) ==
    LET is_image == IsImage(entry.width, entry.height, raw_size)
    IN [id |-> i,
        original_firmware_name |-> entry.original_name,
        original_offset |-> entry.offset,
        original_raw_size |-> raw_size,
        width |-> entry.width,
        height |-> entry.height,
        is_image |-> is_image,
        byte_swap_applied |-> is_image,
        row_padding_bytes |-> IF is_image THEN get_stride_info(entry.width)[3] ELSE 0,
        bmp_header_size |-> IF is_image
                            THEN Len(create_bmp_header(entry.width, entry.height)) ELSE 0,
        saved_filename |-> SavedName(entry.original_name, is_image)]

\* a dropped entry reported on the console
DropLines_Reported(entry) == << Line("SKIP", "", 0, 0, entry.original_name) >>

\* the console lines of a dropped entry
DropLines(entry) == <<>>

\* the console lines of a processed entry i
OkLines(i, entry) ==
    IF i < 10 \/ i % 200 = 0
    THEN << Line("OK", "", i, 0, entry.original_name) >>
    ELSE <<>>

\* open(os.path.join(OUTPUT_DIR, name), 'wb') names a directory: the name
\* is empty, "." or ".."
OpenFails(name) == name \in { <<>>, <<46>>, <<46, 46>> }

\* one iteration of the loop over the sorted entries
ProcessEntry ==
    /\ tool = "bitmap" /\ pc = "process" /\ idx < Len(entries)
    /\ LET entry == entries[idx + 1]
           raw_size == RawSize(entries, idx, data_end_limit, Len(data))
       IN IF Dropped(raw_size)
          THEN /\ out' = out \o DropLines(entry)
               /\ UNCHANGED <<written, manifest>>
               /\ idx' = idx + 1
               /\ UNCHANGED <<pc, err>>
          ELSE LET raw_data == Slice(data, entry.offset, entry.offset + raw_size)
                   meta == Meta(idx, entry, raw_size)
               IN IF OpenFails(meta.saved_filename)
                  THEN \* open(out_path, 'wb') raises, nothing catches it: no
                       \* file, no record, no manifest
                       /\ pc' = "crashed"
                       /\ err' = "IsADirectoryError in main"
                       /\ UNCHANGED <<written, manifest, out, idx>>
                  ELSE /\ written' = Append(written,
                             [name |-> meta.saved_filename,
                              bytes |-> FinalData(raw_data, entry.width, entry.height,
                                                  raw_size)])
                       /\ manifest' = Append(manifest, meta)
                       /\ out' = out \o OkLines(idx, entry)
                       /\ idx' = idx + 1
                       /\ UNCHANGED <<pc, err>>
    /\ UNCHANGED <<tool, data, start_pos, entries, data_end_limit>>
    /\ UNCHANGED breakerVars

\* after the loop: the manifest is dumped as it stands
Finish ==
    /\ tool = "bitmap" /\ pc = "process" /\ idx = Len(entries)
    /\ out' = Append(out, Line("COMPLETE", "", 0, 0, <<>>))
    /\ pc' = "done"
    /\ UNCHANGED <<tool, data, written, err, start_pos, entries, data_end_limit,
                   idx, manifest>>
    /\ UNCHANGED breakerVars

NextBitmap ==
    \/ ScanMatch
    \/ ScanEnd
    \/ ProcessEntry
    \/ Finish

(***************************************************************************)
(* Partition buffers given to 03-bitmap.py: metadata records laid over a   *)
(* filler, a later record of the list over an earlier one.                 *)
(***************************************************************************)
DataFiller(i) == (i * 37 + 11) % 256

\* the 96 bytes of a record: magic, 15 reserved, offset, width, height, name
RecordBytes(r) ==
    MAGIC_SIG \o Zeros(15) \o PackU32(r.offset) \o PackU32(r.width) \o PackU32(r.height)
    \o r.name \o Zeros(64 - Len(r.name))

MkBuffer(len, recs) ==
    [k \in 1..len |->
        LET i == k - 1
            over == {j \in 1..Len(recs) : recs[j].pos <= i /\ i < recs[j].pos + 96}
        IN IF over = {} THEN DataFiller(i)
           ELSE LET j == CHOOSE m \in over : \A n \in over : n <= m
                IN RecordBytes(recs[j])[i - recs[j].pos + 1]]

Rec(pos, offset, width, height, name) ==
    [pos |-> pos, offset |-> offset, width |-> width, height |-> height, name |-> name]

\* Scanner buffers: up to MaxRecords records at increasing positions, the
\* one at 72 starting in the name field of the one at 40; data offsets in
\* and out of the buffer; names "a\x80/b", "\x80" NUL "A" and the empty
\* name; lengths that cut the last record in its numeric fields, in its
\* name field, or not at all.
ScanNames == { <<97, 128, 47, 98>>, <<128, 0, 65>>, <<>> }
ScanRecs == { Rec(pos, offset, 0, 0, name) :
                pos \in {40, 72, 136}, offset \in {0, 300}, name \in ScanNames }
RECURSIVE ScanSeqs(_)
ScanSeqs(n) ==
    IF n = 0 THEN { <<>> }
    ELSE LET shorter == ScanSeqs(n - 1)
         IN UNION { { Append(s, r) : r \in { q \in ScanRecs :
                                               s = <<>> \/ s[Len(s)].pos < q.pos } } :
                    s \in shorter }
ScanPlacements == UNION { ScanSeqs(n) : n \in 0..MaxRecords }
ScanBuffers ==
    { MkBuffer(len, s) : len \in {100, 160, 200, MaxScanLen}, s \in ScanPlacements }

\* Boundary inference buffers: a data region of 40 bytes, then k complete
\* records back to back, each with a data offset and dimensions.
InferRecs(j) ==
    { Rec(40 + 96 * (j - 1), offset, dims[1], dims[2], <<114, 48 + j>>) :
        offset \in {0, 20, 200},
        dims \in (IF j % 2 = 1 THEN { <<0, 7>>, <<3, 2>> } ELSE { <<2, 5>>, <<3, 2>> }) }
RECURSIVE InferSeqs(_)
InferSeqs(n) ==
    IF n = 0 THEN { <<>> }
    ELSE { Append(s, r) : s \in InferSeqs(n - 1), r \in InferRecs(n) }
InferPlacements == UNION { InferSeqs(n) : n \in 1..MaxRecords }
InferBuffers == { MkBuffer(40 + 96 * Len(s), s) : s \in InferPlacements }

\* Three descriptors with data offsets 100, 250, 600 in some discovery
\* order and the metadata region starting at 700.
ExampleBuffers ==
    { MkBuffer(988, << Rec(700, o[1], 0, 0, <<97>>), Rec(796, o[2], 0, 0, <<98>>),
                       Rec(892, o[3], 0, 0, <<99>>) >>) :
        o \in { <<100, 250, 600>>, <<600, 100, 250>>, <<250, 600, 100>> } }

\* One record whose width * height * 2 is 4094 .. 4097 away from its raw
\* size, on either side.
ToleranceBuffers ==
    { MkBuffer(136, << Rec(40, offset, dims[1], dims[2], <<105>>) >>) :
        offset \in {0, 1}, dims \in { <<39, 53>>, <<47, 44>> } }
    \cup
    { MkBuffer(pos + 96, << Rec(pos, 0, 1, 1, <<105>>) >>) : pos \in {4097, 4098} }

\* One complete record with a name that exercises the sanitizer:
\* "icon:back/1.png", " a b ", "x.BMP", "p.bmp", "a\\b ", "a.bmp" TAB,
\* "(1),-_Z", "  ", ".", and a data offset that leaves 40 or 15 raw bytes
\* (5 x 4 pixels take exactly 40 bytes and rows that need 2 padding bytes).
NameChoices ==
    { <<105, 99, 111, 110, 58, 98, 97, 99, 107, 47, 49, 46, 112, 110, 103>>,
      <<32, 97, 32, 98, 32>>,
      <<120, 46, 66, 77, 80>>,
      <<112, 46, 98, 109, 112>>,
      <<97, 92, 98, 32>>,
      <<97, 46, 98, 109, 112, 9>>,
      <<40, 49, 41, 44, 45, 95, 90>>,
      <<32, 32>>,
      <<46>> }
NameBuffers ==
    { MkBuffer(136, << Rec(40, offset, dims[1], dims[2], name) >>) :
        offset \in {0, 25}, dims \in { <<0, 0>>, <<2, 5>>, <<5, 4>> },
        name \in NameChoices }

BitmapBuffers ==
    ScanBuffers \cup InferBuffers \cup ExampleBuffers \cup ToleranceBuffers
    \cup NameBuffers

InitBitmap ==
    /\ tool = "bitmap"
    /\ pc = "scan"
    /\ data \in BitmapBuffers
    /\ out = << Line("SCANNING", "", 0, 0, <<>>) >>
    /\ written = <<>>
    /\ err = ""
    /\ parts = <<>>
    /\ hidx = 0
    /\ start_pos = 0
    /\ entries = <<>>
    /\ data_end_limit = 0
    /\ idx = 0
    /\ manifest = <<>>

Init == InitBreaker \/ InitBitmap
Next == NextBreaker \/ NextBitmap
Spec == Init /\ [][Next]_vars

(***************************************************************************)
(* Properties                                                              *)
(***************************************************************************)
\* the little-endian 32-bit word at Python index p of buf
WordAt(buf, p) ==
    buf[p + 1] + buf[p + 2] * 256 + buf[p + 3] * 65536 + buf[p + 4] * 16777216

\* the six partitions in decoding order, each with the byte positions of
\* its offset word and of its size word
HeaderTable ==
    << <<"part_0_flag", 112, 116>>, <<"part_1_firmware_a", 120, 124>>,
       <<"part_2_firmware_b", 128, 132>>, <<"part_3_resource", 204, 208>>,
       <<"part_5_main_fs", 332, 336>>, <<"part_4_audio_dsp", 248, 252>> >>

\* the image holds all six 16-byte headers: the last one ends at 0x15C
AllHeadersFit == Len(data) >= 348

HeadersReturned == pc \in {"verify", "extract", "post3", "post1", "done"}

HeaderCrash == pc = "crashed" /\ err = "struct.error in analyze_hybrid_headers"

\* C1: for every image long enough for all six header reads the decoder
\* returns exactly the six partitions, in decoding order, the five Type A
\* ones with (offset, size) = words 1 and 2 of their header and
\* part_4_audio_dsp with words 2 and 3 of the header at 0xF4, and every
\* data field is still empty when the decoder returns.
C1_HeadersDecoded ==
    tool = "breaker" =>
        /\ AllHeadersFit => ~HeaderCrash
        /\ (AllHeadersFit /\ HeadersReturned) =>
              /\ Len(parts) = 6
              /\ \A k \in 1..6 :
                    /\ parts[k].name = HeaderTable[k][1]
                    /\ parts[k].offset = WordAt(data, HeaderTable[k][2])
                    /\ parts[k].size = WordAt(data, HeaderTable[k][3])
                    /\ pc = "verify" => parts[k].data = None

\* C1 witness: the decoder has returned for an image whose header at 0xF4
\* has words 1, 2 different from words 2, 3
C1_Witness ==
    /\ tool = "breaker" /\ pc = "verify" /\ Len(parts) = 6
    /\ <<WordAt(data, 244), WordAt(data, 248)>> # <<WordAt(data, 248), WordAt(data, 252)>>
    /\ parts[6].offset = 336

\* the headers in the order the decoder reads them, by byte position
ReadOrder == <<112, 120, 128, 204, 332, 244>>

HeaderFits(pos) == pos + 16 <= Len(data)

\* how many headers are read before the first one that does not fit
ReadBeforeFailure ==
    Cardinality({k \in 1..6 : \A j \in 1..k : HeaderFits(ReadOrder[j])})

\* C2 as stated: a header that does not fit is fatal for that header only,
\* the partitions whose headers fit are still decoded and returned, and the
\* run aborts in the decoder only when not even the first header fits.
C2_Original ==
    (tool = "breaker" /\ pc \in {"crashed", "done"}) =>
        /\ \A k \in 1..6 : HeaderFits(ReadOrder[k]) => HasKey(parts, HeaderTable[k][1])
        /\ HeaderCrash => ~HeaderFits(112)

\* C2 amended: an image too short for any one of the six header reads
\* (shorter than 0x15C) makes the decoder fail as a whole: the rows of the
\* headers read before the failing one are printed, then the run aborts
\* with no partition returned and no file written; the decoder returns
\* only when all six headers fit.
C2_ShortImageAborts ==
    tool = "breaker" =>
        /\ ~AllHeadersFit =>
              /\ pc \in {"headers", "p4", "crashed"}
              /\ written = <<>>
              /\ pc = "crashed" =>
                    /\ HeaderCrash
                    /\ parts = <<>>
                    /\ Len(out) = ReadBeforeFailure
                    /\ \A k \in 1..Len(out) :
                          out[k].tag = "ROW" /\ out[k].name = HeaderTable[k][1]
        /\ HeaderCrash => ~AllHeadersFit

\* C2 witness: the run has aborted on an image that holds some of the
\* headers, after decoding those
C2_Witness ==
    /\ tool = "breaker" /\ HeaderCrash
    /\ HeaderFits(112) /\ HeaderFits(244) /\ ~HeaderFits(332)
    /\ Len(out) = 4

\* the partitions the extraction loop has gone through
Extracted ==
    IF pc = "extract" THEN 1..(hidx - 1)
    ELSE IF pc \in {"post3", "post1", "done"} \/ (pc = "crashed" /\ ~HeaderCrash)
    THEN 1..Len(parts)
    ELSE {}

ErrLines(name) == {k \in 1..Len(out) : out[k].tag = "ERR" /\ out[k].name = name}
FilesNamed(name) == {k \in 1..Len(written) : written[k].name = name}

\* C3: each partition the extraction loop has gone through is, on its own,
\* either out of bounds (offset + size beyond the image): reported once,
\* data still empty, no file; or extracted: data is exactly
\* image[offset : offset + size], size bytes long, and written to its file.
\* The loop goes through all six partitions whatever their bounds.
C3_ExtractEach ==
    tool = "breaker" =>
        /\ \A k \in Extracted :
              IF parts[k].offset + parts[k].size > Len(data)
              THEN /\ parts[k].data = None
                   /\ Cardinality(ErrLines(parts[k].name)) = 1
                   /\ FilesNamed(parts[k].name) = {}
              ELSE /\ Len(parts[k].data) = parts[k].size
                   /\ \A i \in 1..parts[k].size :
                         parts[k].data[i] = data[parts[k].offset + i]
                   /\ ErrLines(parts[k].name) = {}
                   /\ \E f \in FilesNamed(parts[k].name) :
                         written[f].bytes = parts[k].data
        /\ \A k \in 1..Len(parts) : k \notin Extracted => parts[k].data = None
        /\ (pc \in {"post3", "post1", "done"}) => Extracted = 1..6

\* C3 witness: the loop has ended with an out-of-bounds partition skipped
\* and a later partition extracted with all its bytes
C3_Witness ==
    /\ tool = "breaker" /\ pc = "post3"
    /\ \E j, k \in 1..Len(parts) :
          /\ j < k
          /\ parts[j].offset + parts[j].size > Len(data) /\ parts[j].data = None
          /\ parts[k].data # None /\ Len(parts[k].data) = parts[k].size
          /\ parts[k].size > 0

AdjacencyLines(label) ==
    {k \in 1..Len(out) : out[k].name = label /\ out[k].tag \in {"PASS", "WARN"}}

\* the outcome of one continuity check, from the header words of the image
AdjacencyHolds(label, p_end, q_start) ==
    /\ Cardinality(AdjacencyLines(label)) = 1
    /\ \A k \in AdjacencyLines(label) :
          IF p_end = q_start
          THEN out[k].tag = "PASS"
          ELSE out[k].tag = "WARN" /\ out[k].a = q_start - p_end

\* C4: for each of the two checked pairs the check reports PASS exactly
\* when p.offset + p.size = q.offset and WARN with the gap
\* q.offset - (p.offset + p.size) otherwise, and after either outcome the
\* extraction loop goes through every partition.
C4_Adjacency ==
    (tool = "breaker" /\ pc \in {"extract", "post3", "post1", "done"}) =>
        /\ AdjacencyHolds("3-4", WordAt(data, 204) + WordAt(data, 208), WordAt(data, 248))
        /\ AdjacencyHolds("4-5", WordAt(data, 248) + WordAt(data, 252), WordAt(data, 332))
        /\ pc # "extract" =>
              \A k \in 1..6 : parts[k].data # None \/ ErrLines(parts[k].name) # {}

\* C4 witness: a 4-byte gap between part 3 and part 4 was reported and the
\* extraction has gone through, writing files
C4_Witness ==
    /\ tool = "breaker" /\ pc = "post3"
    /\ \E k \in AdjacencyLines("3-4") : out[k].tag = "WARN" /\ out[k].a = 4
    /\ \E k \in AdjacencyLines("4-5") : out[k].tag = "PASS"
    /\ Len(written) >= 3
\* the signature lies at Python index p of the partition buffer
Occurs(p) ==
    /\ p + 5 <= Len(data)
    /\ data[p + 1] = 119 /\ data[p + 2] = 0 /\ data[p + 3] = 0
    /\ data[p + 4] = 58 /\ data[p + 5] = 117

Occurrences == {p \in 0..(Len(data) - 5) : Occurs(p)}

\* the name field of the record at p, cut at the end of the buffer, has a
\* byte 1..127 before its first NUL
NameNonEmptyAt(p) ==
    \E k \in (p + 32)..(Min(p + 96, Len(data)) - 1) :
        /\ data[k + 1] \in 1..127
        /\ \A j \in (p + 32)..(k - 1) : data[j + 1] # 0

\* the record at p has a data offset inside the buffer and a non-empty name
Accepted(p) == NameNonEmptyAt(p) /\ WordAt(data, p + 20) < Len(data)

MetaPositions == {entries[k].meta_pos : k \in 1..Len(entries)}

\* C5: the scanner examines every occurrence of the signature in ascending
\* order, also one inside the 96 bytes of the previous match, and holds a
\* descriptor for an occurrence exactly when its data offset is less than
\* the buffer length and its decoded name is non-empty; the descriptors are
\* in discovery order with meta position = match position.
C5_Scanner ==
    tool = "bitmap" =>
        LET seen == IF pc = "scan" THEN {p \in Occurrences : p < start_pos}
                    ELSE Occurrences
        IN /\ MetaPositions = {p \in seen : Accepted(p)}
           /\ Cardinality(MetaPositions) = Len(entries)
           /\ \A k \in 1..Len(entries) :
                 /\ entries[k].offset = WordAt(data, entries[k].meta_pos + 20)
                 /\ entries[k].width = WordAt(data, entries[k].meta_pos + 24)
                 /\ entries[k].height = WordAt(data, entries[k].meta_pos + 28)
                 /\ Len(entries[k].original_name) > 0
           /\ pc = "scan" =>
                 /\ \A k \in 1..(Len(entries) - 1) :
                       entries[k].meta_pos < entries[k + 1].meta_pos
                 /\ start_pos = 0 \/ (start_pos - 1) \in Occurrences

\* C5 witness: the scan has ended with two descriptors whose records
\* overlap and with an occurrence that gave no descriptor
C5_Witness ==
    /\ tool = "bitmap" /\ pc = "process"
    /\ \E j, k \in 1..Len(entries) :
          entries[j].meta_pos < entries[k].meta_pos
          /\ entries[k].meta_pos < entries[j].meta_pos + 96
    /\ \E p \in Occurrences : ~Accepted(p)

\* C6 as stated: a match whose 96-byte record is cut by the end of the
\* buffer never yields a descriptor.
C6_Original ==
    tool = "bitmap" => \A k \in 1..Len(entries) : entries[k].meta_pos + 96 <= Len(data)

\* the start of the metadata region: the least accepted match position
MinMeta ==
    CHOOSE m \in {p \in Occurrences : Accepted(p)} :
        \A p \in Occurrences : Accepted(p) => m <= p

\* the size boundary inference gives entry i (0-based) of the sorted list
InferredSize(i) ==
    IF i + 1 < Len(entries)
    THEN entries[i + 2].offset - entries[i + 1].offset
    ELSE IF MinMeta - entries[i + 1].offset < 0
         THEN Len(data) - entries[i + 1].offset
         ELSE MinMeta - entries[i + 1].offset

RecordsOf(i) == {k \in 1..Len(manifest) : manifest[k].id = i}

\* C7: the descriptors are sorted by data offset ascending (equal offsets
\* in discovery order); entry i before the last has raw size
\* offset[i+1] - offset[i], the last one (least meta position) -
\* offset[last], or buffer length - offset[last] when that is negative; an
\* entry has a manifest record exactly when its raw size is > 0.  Offsets
\* 100, 250, 600 with the metadata region at 700 give 150, 350, 100.
C7_BoundaryInference ==
    (tool = "bitmap" /\ pc \in {"process", "done"}) =>
        /\ \A k \in 1..(Len(entries) - 1) :
              \/ entries[k].offset < entries[k + 1].offset
              \/ /\ entries[k].offset = entries[k + 1].offset
                 /\ entries[k].meta_pos < entries[k + 1].meta_pos
        /\ \A k \in 1..Len(manifest) : manifest[k].id \in 0..(idx - 1)
        /\ \A i \in 0..(idx - 1) :
              IF InferredSize(i) <= 0
              THEN RecordsOf(i) = {}
              ELSE /\ Cardinality(RecordsOf(i)) = 1
                   /\ \A k \in RecordsOf(i) :
                         /\ manifest[k].original_raw_size = InferredSize(i)
                         /\ manifest[k].original_offset = entries[i + 1].offset
        /\ (pc = "done" /\ Len(entries) = 3 /\ MinMeta = 700
            /\ [k \in 1..3 |-> entries[k].offset] = <<100, 250, 600>>) =>
              [k \in 1..Len(manifest) |-> manifest[k].original_raw_size] = <<150, 350, 100>>

\* C7 witness: descriptors found in the order 600, 100, 250 with the
\* metadata region at 700 were given the sizes 150, 350, 100
C7_Witness ==
    /\ tool = "bitmap" /\ pc = "done"
    /\ Len(entries) = 3 /\ Len(manifest) = 3
    /\ MinMeta = 700
    /\ WordAt(data, 720) = 600
    /\ [k \in 1..Len(entries) |-> entries[k].offset] = <<100, 250, 600>>
    /\ [k \in 1..Len(manifest) |-> manifest[k].original_raw_size] = <<150, 350, 100>>

\* raw size less the 2 bytes per pixel of the declared dimensions
SizeDiff(m) == m.original_raw_size - m.width * m.height * 2

\* C8: a processed resource is an image exactly when width > 0, height > 0
\* and |raw_size - width*height*2| < 4096; an image is byte swapped,
\* restrided and given a header; any other resource is written as its raw
\* bytes, with byte_swap_applied false, row_padding_bytes 0 and
\* bmp_header_size 0.
C8_Classification ==
    tool = "bitmap" =>
        /\ Len(written) = Len(manifest)
        /\ \A k \in 1..Len(manifest) :
              LET m == manifest[k]
                  bytes == written[k].bytes
              IN /\ m.is_image <=>
                        (m.width > 0 /\ m.height > 0
                         /\ SizeDiff(m) > -4096 /\ SizeDiff(m) < 4096)
                 /\ m.is_image =>
                        /\ m.byte_swap_applied
                        /\ m.bmp_header_size > 0
                        /\ m.row_padding_bytes \in 0..3
                        /\ (m.width * 2 + m.row_padding_bytes) % 4 = 0
                        /\ Len(bytes) = m.bmp_header_size
                                + m.height * (m.width * 2 + m.row_padding_bytes)
                 /\ ~m.is_image =>
                        /\ bytes = [i \in 1..m.original_raw_size |->
                                        data[m.original_offset + i]]
                        /\ ~m.byte_swap_applied
                        /\ m.row_padding_bytes = 0
                        /\ m.bmp_header_size = 0

\* C8 witness: a resource with positive dimensions 4096 bytes longer than
\* width*height*2 was passed through as raw bytes
C8_Witness ==
    /\ tool = "bitmap" /\ pc = "done"
    /\ \E k \in 1..Len(manifest) :
          /\ manifest[k].width > 0 /\ manifest[k].height > 0
          /\ SizeDiff(manifest[k]) = 4096
          /\ ~manifest[k].is_image
          /\ Len(written[k].bytes) = manifest[k].original_raw_size

ProgressTags == {"SCANNING", "PROCESSING", "OK", "COMPLETE"}

SkipReports == {k \in 1..Len(out) : out[k].tag \notin ProgressTags}

\* matches that gave no descriptor, and entries that gave no record
DiscardedMatches ==
    {p \in Occurrences : (pc # "scan" \/ p < start_pos) /\ ~Accepted(p)}
DiscardedEntries ==
    IF pc \in {"process", "done"} THEN {i \in 0..(idx - 1) : RecordsOf(i) = {}} ELSE {}

OutOfBoundsParts ==
    {k \in Extracted : parts[k].offset + parts[k].size > Len(data)}

\* C10 as stated: when the run has ended, every partition skipped as out of
\* bounds, every discarded match and every discarded resource has its
\* diagnostic line.
C10_Original ==
    pc \in {"done", "crashed"} =>
        IF tool = "breaker"
        THEN \A k \in OutOfBoundsParts : ErrLines(parts[k].name) # {}
        ELSE Cardinality(SkipReports)
                >= Cardinality(DiscardedMatches) + Cardinality(DiscardedEntries)

\* C10 amended: a partition skipped as out of bounds is reported, by one
\* ERR line naming it, and no other partition is; discarded matches and
\* discarded resources are skipped silently: the console of 03-bitmap.py
\* holds progress lines only, an OK line only for a resource that was
\* written.
C10_SkipsReported ==
    /\ tool = "breaker" =>
          /\ \A k \in OutOfBoundsParts : Cardinality(ErrLines(parts[k].name)) = 1
          /\ \A n \in 1..Len(out) :
                out[n].tag = "ERR" =>
                    \E k \in OutOfBoundsParts : parts[k].name = out[n].name
    /\ tool = "bitmap" =>
          /\ SkipReports = {}
          /\ \A n \in 1..Len(out) :
                out[n].tag = "OK" =>
                    \E k \in RecordsOf(out[n].a) :
                        manifest[k].original_firmware_name = out[n].raw

\* C10 witness: 03-bitmap.py has ended after discarding a match and a
\* resource, and its console holds no line for either
C10_Witness ==
    /\ tool = "bitmap" /\ pc = "done"
    /\ DiscardedMatches # {} /\ DiscardedEntries # {}
    /\ \A n \in 1..Len(out) : out[n].tag \in ProgressTags

\* a character the sanitizer keeps: 0-9, A-Z, a-z and . _ - ( ) , space
Preserved(c) ==
    c \in (48..57) \cup (65..90) \cup (97..122) \cup {46, 95, 45, 40, 41, 44, 32}

\* the name with every other character replaced by '_', in place
Mapped(o) == [k \in 1..Len(o) |-> IF Preserved(o[k]) THEN o[k] ELSE 95]

\* the name without its leading and trailing spaces
Trimmed(m) ==
    LET kept == {k \in 1..Len(m) : m[k] # 32}
    IN IF kept = {} THEN <<>>
       ELSE SubSeq(m, CHOOSE k \in kept : \A j \in kept : k <= j,
                      CHOOSE k \in kept : \A j \in kept : j <= k)

EndsInBmp(n) == Len(n) >= 4 /\ SubSeq(n, Len(n) - 3, Len(n)) = <<46, 98, 109, 112>>

EndsInBmpAnyCase(n) ==
    /\ Len(n) >= 4
    /\ n[Len(n) - 3] = 46
    /\ n[Len(n) - 2] \in {98, 66}
    /\ n[Len(n) - 1] \in {109, 77}
    /\ n[Len(n)] \in {112, 80}

IconBack == <<105, 99, 111, 110, 58, 98, 97, 99, 107, 47, 49, 46, 112, 110, 103>>
IconBackSafe == <<105, 99, 111, 110, 95, 98, 97, 99, 107, 95, 49, 46, 112, 110, 103>>

\* C11 as stated: the saved name is the original name mapped character by
\* character, of the same length, with '.bmp' appended for an image exactly
\* when the name does not already end in '.bmp'.
C11_Original ==
    tool = "bitmap" =>
        \A k \in 1..Len(manifest) :
            LET m == Mapped(manifest[k].original_firmware_name)
            IN manifest[k].saved_filename =
                  IF manifest[k].is_image /\ ~EndsInBmp(m)
                  THEN m \o <<46, 98, 109, 112>> ELSE m

\* C11 amended: the saved name is the original name mapped character by
\* character and then stripped of leading and trailing spaces, so it has
\* the length of the original when that neither starts nor ends with a
\* space ("icon:back/1.png" gives "icon_back_1.png"); for an image '.bmp'
\* is appended exactly when the stripped name does not end in '.bmp' in
\* any letter case.
C11_Sanitized ==
    tool = "bitmap" =>
        \A k \in 1..Len(manifest) :
            LET o == manifest[k].original_firmware_name
                t == Trimmed(Mapped(o))
                saved == manifest[k].saved_filename
            IN /\ saved = IF manifest[k].is_image /\ ~EndsInBmpAnyCase(t)
                          THEN t \o <<46, 98, 109, 112>> ELSE t
               /\ written[k].name = saved
               /\ (o[1] # 32 /\ o[Len(o)] # 32) =>
                     /\ Len(t) = Len(o)
                     /\ \A i \in 1..Len(o) : t[i] # o[i] => (t[i] = 95 /\ ~Preserved(o[i]))
               /\ o = IconBack => SubSeq(saved, 1, 15) = IconBackSafe

\* C11 witness: the resource "icon:back/1.png" was written as an image
\* under the name "icon_back_1.png.bmp"
C11_Witness ==
    /\ tool = "bitmap" /\ pc = "done"
    /\ \E k \in 1..Len(manifest) :
          /\ manifest[k].original_firmware_name = IconBack
          /\ manifest[k].is_image
          /\ manifest[k].saved_filename = IconBackSafe \o <<46, 98, 109, 112>>

\* the row length of the bitmap: width*2 rounded up to a multiple of 4
DstStride(w) == (w * 2 + 3) - ((w * 2 + 3) % 4)

\* byte j (0-based) of the byte-swapped source of record m: the other byte
\* of its 16-bit pair, or zero past the last whole pair of the raw bytes
SwappedSource(m, j) ==
    IF j < m.original_raw_size - (m.original_raw_size % 2)
    THEN data[m.original_offset + (IF j % 2 = 0 THEN j + 1 ELSE j - 1) + 1]
    ELSE 0

\* C12: for every resource classified as an image, whatever its raw length,
\* the reconstruction goes through and the payload after the header is
\* height rows of dst_stride bytes: row y holds the byte-swapped source
\* bytes [y*width*2, (y+1)*width*2), zero where the source has none, then
\* dst_stride - width*2 zero bytes; the header's image size is the payload
\* length, its file size the output length, its pixel data offset the
\* header length.
C12_Reconstruction ==
    tool = "bitmap" =>
        /\ \A k \in 1..Len(manifest) :
              manifest[k].is_image =>
                  LET m == manifest[k]
                      b == written[k].bytes
                      hdr == m.bmp_header_size
                      dst == DstStride(m.width)
                  IN /\ m.original_offset + m.original_raw_size <= Len(data)
                     /\ m.row_padding_bytes = dst - m.width * 2
                     /\ Len(b) = hdr + m.height * dst
                     /\ \A y \in 0..(m.height - 1) : \A x \in 0..(dst - 1) :
                           b[hdr + y * dst + x + 1] =
                               IF x < m.width * 2
                               THEN SwappedSource(m, y * m.width * 2 + x)
                               ELSE 0
                     /\ WordAt(b, 2) = Len(b)
                     /\ WordAt(b, 10) = hdr
                     /\ WordAt(b, 34) = Len(b) - hdr
        /\ pc = "crashed" =>
              ~(/\ entries[idx + 1].width > 0 /\ entries[idx + 1].height > 0
                /\ InferredSize(idx) - entries[idx + 1].width * entries[idx + 1].height * 2
                      \in -4095..4095)

\* C12 witness: an image was rebuilt from an odd number of raw bytes,
\* fewer than width*height*2
C12_Witness ==
    /\ tool = "bitmap" /\ pc = "done"
    /\ \E k \in 1..Len(manifest) :
          /\ manifest[k].is_image
          /\ manifest[k].original_raw_size % 2 = 1
          /\ manifest[k].original_raw_size < manifest[k].width * manifest[k].height * 2
          /\ Len(written[k].bytes) = 66 + manifest[k].height * DstStride(manifest[k].width)

\* the entries that share their data offset with entry i (0-based)
SameOffset(i) ==
    {j \in 0..(Len(entries) - 1) : j # i /\ entries[j + 1].offset = entries[i + 1].offset}

\* C13: the manifest records are in strictly increasing original_offset
\* order and tile the data region: every record has original_raw_size > 0,
\* ends where the next record starts, the last one ends inside the buffer,
\* and the bytes taken for a record are exactly original_raw_size long;
\* of the descriptors that share a data offset only the last one in
\* discovery order has a record.
C13_Tiling ==
    tool = "bitmap" =>
        /\ \A k \in 1..Len(manifest) :
              /\ manifest[k].original_raw_size > 0
              /\ manifest[k].original_offset + manifest[k].original_raw_size <= Len(data)
              /\ ~manifest[k].is_image =>
                    Len(written[k].bytes) = manifest[k].original_raw_size
        /\ \A k \in 1..(Len(manifest) - 1) :
              /\ manifest[k].original_offset < manifest[k + 1].original_offset
              /\ manifest[k].original_offset + manifest[k].original_raw_size
                    = manifest[k + 1].original_offset
        /\ \A k \in 1..Len(manifest) :
              \A j \in SameOffset(manifest[k].id) :
                  /\ RecordsOf(j) = {}
                  /\ entries[j + 1].meta_pos < entries[manifest[k].id + 1].meta_pos

\* C13 witness: two descriptors shared a data offset, the later one found
\* has the record, and the records tile the data region
C13_Witness ==
    /\ tool = "bitmap" /\ pc = "done"
    /\ Len(manifest) >= 2
    /\ \E k \in 1..Len(manifest) : SameOffset(manifest[k].id) # {}
    /\ manifest[1].original_offset + manifest[1].original_raw_size
          = manifest[2].original_offset

====
